---------------------------- MODULE Spec2Model ----------------------------
(***************************************************************************)
(* Model of src/infer.py (and the request handling of src/api.py): the     *)
(* text chunker, the token estimator, the label extractor, the web         *)
(* evidence collector and the two orchestrators.                           *)
(*                                                                         *)
(* A Python str is a sequence of one-character strings; offsets are        *)
(* Python's (0-based), so text[i:j] is SubSeq(text, i + 1, j).             *)
(***************************************************************************)
EXTENDS Integers, Sequences, FiniteSets, TLC

\* ------------------------------------------------------------------ bounds
\* Longest text handed to chunk_text in the chunker specification.
MaxTextLen == 5
\* Largest chunk_size handed to chunk_text in the chunker specification.
MaxChunkSize == 3
\* Pages of a downloaded document, and characters of one page's text.
MaxPages == 2
MaxPageLen == 3
\* The legal pipeline's sizes, scaled down together: the source's 128_000 tokens
\* (512_000 characters) and 30000 characters per chunk become ScaledTokenLimit
\* tokens and ScaledChunkSize characters; as in the source, a text over the
\* limit is longer than chunk_size * 1.2 characters.
ScaledTokenLimit == 1
ScaledChunkSize == 2

\* ------------------------------------------------------------ characters
\* Characters str.strip() removes (of those the model's texts are built from).
Whitespace == {" ", "\n"}
\* The characters the model's texts are built from.
Alphabet == {"a", "b", " ", "\n"}

Min(a, b) == IF a < b THEN a ELSE b
Max(a, b) == IF a > b THEN a ELSE b

\* All texts of at most n characters over the set chars.
TextsUpTo(chars, n) == UNION {[1..k -> chars] : k \in 0..n}

\* text[a:b] for 0 <= a <= b <= len(text).
Slice(text, a, b) == SubSeq(text, a + 1, b)

\* str.strip(): leading and trailing whitespace removed.
RECURSIVE LStrip(_)
LStrip(s) ==
    IF s # <<>> /\ Head(s) \in Whitespace THEN LStrip(Tail(s)) ELSE s
RECURSIVE RStrip(_)
RStrip(s) ==
    IF s # <<>> /\ s[Len(s)] \in Whitespace
    THEN RStrip(SubSeq(s, 1, Len(s) - 1)) ELSE s
Strip(s) == RStrip(LStrip(s))
\* not s.strip()
IsBlank(s) == \A k \in 1..Len(s) : s[k] \in Whitespace

\* str.find(ch, start): the lowest offset >= start holding ch, or -1.
Find(text, ch, start) ==
    LET hits == {j \in start..(Len(text) - 1) : text[j + 1] = ch}
    IN  IF hits = {} THEN -1 ELSE CHOOSE j \in hits : \A k \in hits : j <= k

\* next_space - i <= chunk_size * 1.2, the float comparison of line 61: for the
\* integers involved it is d * 10 <= chunk_size * 12.
WithinTolerance(d, chunk_size) == d * 10 <= chunk_size * 12

\* ChunkEnd without the tolerance test of line 61: the piece always runs to the
\* next space.
ChunkEndFarSpace(text, i, chunk_size) ==
    LET L == Len(text)
        end == Min(i + chunk_size, L)
        next_space == Find(text, " ", end)
    IN  IF end < L /\ next_space # -1 THEN next_space ELSE end
\* One iteration of chunk_text's loop (lines 58-62): the end offset of the piece
\* that starts at offset i.
ChunkEnd(text, i, chunk_size) ==
    LET L == Len(text)
        end == Min(i + chunk_size, L)
        next_space == Find(text, " ", end)
    IN  IF end < L /\ next_space # -1 /\ WithinTolerance(next_space - i, chunk_size)
        THEN next_space
        ELSE end

\* DropEmpty without the filter: the empty chunks kept.
KeepAll(cs) == cs
\* The list comprehension of line 65: the empty chunks dropped.
DropEmpty(cs) == SelectSeq(cs, LAMBDA c : c # <<>>)

\* Piece without the strip().
PieceUnstripped(text, i, end) == Slice(text, i, end)
\* The piece appended at line 63.
Piece(text, i, end) == Strip(Slice(text, i, end))

\* chunk_text as a function (lines 53-65), the loop unrolled from offset i.
RECURSIVE ChunkLoop(_, _, _)
ChunkLoop(text, i, chunk_size) ==
    IF i < Len(text)
    THEN LET end == ChunkEnd(text, i, chunk_size)
         IN  <<Piece(text, i, end)>> \o ChunkLoop(text, end, chunk_size)
    ELSE <<>>
chunk_text(text, chunk_size) == DropEmpty(ChunkLoop(text, 0, chunk_size))

\* approx_tokens_from_chars (lines 68-69): max(1, ceil(len(text) / 4.0)).
CharsPerToken == 4
CeilDiv(n, d) == (n + d - 1) \div d
approx_tokens_from_chars(text) == Max(1, CeilDiv(Len(text), CharsPerToken))

\* TOKEN_LIMIT_LEGAL (line 15) and the chunk_size of line 90, scaled.
TOKEN_LIMIT_LEGAL == ScaledTokenLimit
LegalChunkSize == ScaledChunkSize

\* OverLimit with the text never chunked.
OverLimitNever(estimated_tokens) == FALSE
\* The test of line 89.
OverLimit(estimated_tokens) == estimated_tokens > TOKEN_LIMIT_LEGAL

\* Lines 89-92: the chunks of the extracted text.
LegalChunks(pdf_text) ==
    IF OverLimit(approx_tokens_from_chars(pdf_text))
    THEN chunk_text(pdf_text, LegalChunkSize)
    ELSE <<pdf_text>>

\* read_pdf_to_text (lines 43-50): the texts of the pages that have one, joined
\* by a blank line. A page's text <<>> is extract_text() returning None or "".
RECURSIVE JoinPages(_)
JoinPages(parts) ==
    IF parts = <<>> THEN <<>>
    ELSE IF Len(parts) = 1 THEN parts[1]
    ELSE parts[1] \o <<"\n", "\n">> \o JoinPages(Tail(parts))
read_pdf_to_text(pages) == JoinPages(SelectSeq(pages, LAMBDA txt : txt # <<>>))

\* What a URL serves, and what the file temp_document.pdf holds: ok is whether
\* the URL answers (the file exists), pdf whether pdfplumber can open the bytes,
\* pages the text of each page.
Nothing == [ok |-> FALSE, pdf |-> FALSE, pages |-> <<>>]
NotAPdf == [ok |-> TRUE, pdf |-> FALSE, pages |-> <<>>]
Pdf(pages) == [ok |-> TRUE, pdf |-> TRUE, pages |-> pages]

\* The documents of the single-request specification, and the two of the
\* concurrent one.
PageAlphabet == {"a", " "}
PageTexts == TextsUpTo(PageAlphabet, MaxPageLen)
LegalDocs ==
    {Pdf(pp) : pp \in UNION {[1..k -> PageTexts] : k \in 0..MaxPages}}
        \cup {NotAPdf, Nothing}
TwoDocs == {Pdf(<<<<"a">>>>), Pdf(<<<<"b">>>>), Nothing}

Requests == {"r1", "r2"}

\* process_legal_document's results (lines 81-85, 126-134, 140); metadata is
\* <<>> where the dict has no such key.
NoResult == [status |-> "none", message |-> "", explanation |-> <<>>,
             metadata |-> <<>>]
ErrorResult(msg) == [status |-> "error", message |-> msg, explanation |-> <<>>,
                     metadata |-> <<>>]
SuccessResult(all_responses, estimated_tokens, chunks) ==
    [status |-> "success", message |-> "", explanation |-> all_responses,
     metadata |-> <<[estimated_tokens |-> estimated_tokens,
                     chunks_processed |-> Len(chunks),
                     within_token_limit |-> estimated_tokens <= TOKEN_LIMIT_LEGAL]>>]

\* ---------------------------------------------------------- extract_label
\* str.upper() on the letters a-z; every other character is unchanged.
UpperOf ==
    "a" :> "A" @@ "b" :> "B" @@ "c" :> "C" @@ "d" :> "D" @@ "e" :> "E" @@ "f" :> "F" @@
    "g" :> "G" @@ "h" :> "H" @@ "i" :> "I" @@ "j" :> "J" @@ "k" :> "K" @@ "l" :> "L" @@
    "m" :> "M" @@ "n" :> "N" @@ "o" :> "O" @@ "p" :> "P" @@ "q" :> "Q" @@ "r" :> "R" @@
    "s" :> "S" @@ "t" :> "T" @@ "u" :> "U" @@ "v" :> "V" @@ "w" :> "W" @@ "x" :> "X" @@
    "y" :> "Y" @@ "z" :> "Z"
ToUpper(c) == IF c \in DOMAIN UpperOf THEN UpperOf[c] ELSE c
Upper(text) == [k \in 1..Len(text) |-> ToUpper(text[k])]

\* pat in text
Contains(text, pat) ==
    \E k \in 0..(Len(text) - Len(pat)) : Slice(text, k, k + Len(pat)) = pat

kTRUE == <<"T", "R", "U", "E">>
kFALSE == <<"F", "A", "L", "S", "E">>
kPARTIALLY_TRUE == <<"P", "A", "R", "T", "I", "A", "L", "L", "Y", " ", "T", "R", "U", "E">>
kPARTIAL == <<"P", "A", "R", "T", "I", "A", "L">>
kUNCERTAIN == <<"U", "N", "C", "E", "R", "T", "A", "I", "N">>
kUNCLEAR == <<"U", "N", "C", "L", "E", "A", "R">>

\* extract_label (lines 202-214).
extract_label(response_text) ==
    LET text == Upper(response_text)
    IN  IF Contains(text, kTRUE) /\ ~Contains(text, kFALSE) THEN "TRUE"
        ELSE IF Contains(text, kFALSE) /\ ~Contains(text, kTRUE) THEN "FALSE"
        ELSE IF Contains(text, kPARTIALLY_TRUE) \/ Contains(text, kPARTIAL)
             THEN "PARTIALLY TRUE"
        ELSE IF Contains(text, kUNCERTAIN) \/ Contains(text, kUNCLEAR)
             THEN "UNCERTAIN"
        ELSE "UNCERTAIN"

\* The texts the first generate_content call may answer: two of these pieces,
\* one after the other.
Fragments ==
    {<<"T", "h", "i", "s", " ", "i", "s", " ">>,
     <<"T", "R", "U", "E">>,
     <<"F", "A", "L", "S", "E">>,
     <<"P", "A", "R", "T", "I", "A", "L", "L", "Y", " ", "T", "R", "U", "E">>,
     <<"p", "a", "r", "t", "i", "a", "l", "l", "y", " ", "t", "r", "u", "e">>,
     <<"P", "a", "r", "t", "i", "a", "l">>,
     <<"U", "N", "C", "E", "R", "T", "A", "I", "N">>,
     <<"u", "n", "c", "l", "e", "a", "r">>,
     <<"f", "a", "l", "s", "e">>,
     <<"T", "r", "u", "e">>,
     <<"n", "o", " ", "i", "d", "e", "a", ",", " ">>,
     <<>>}
Responses == {a \o b : a \in Fragments, b \in Fragments}
\* The texts the second call may answer.
DetailTexts == {<<"d", "e", "t", "a", "i", "l", " ", "o", "n", "e">>, <<"d", "e", "t", "a", "i", "l", " ", "t", "w", "o">>}

\* -------------------------------------------------------- search_web_info
\* num_results of the call at line 221.
NumResults == 5

\* The k-th result of the search (a dict with title, href and body) and the
\* excerpt scraped from its page (clean_text, line 175).
SearchResult(k) == [title |-> <<"title", k>>, href |-> <<"href", k>>,
                    body |-> <<"body", k>>]
CleanText(k) == <<"page", k>>

\* The source appended on a successful fetch (lines 177-183): the snippet, then
\* "Full content:" and the excerpt.
ScrapedSource(result, clean_text) ==
    [title |-> result.title, url |-> result.href,
     content |-> [snippet |-> result.body, full |-> <<clean_text>>]]
\* The source appended by the handler of lines 185-192: the snippet alone.
SnippetSource(result) ==
    [title |-> result.title, url |-> result.href,
     content |-> [snippet |-> result.body, full |-> <<>>]]

\* OnFetchFailure with the failing source left out.
OnFetchFailureSkip(search_results, result) == search_results
\* Lines 185-192: what a failed fetch or parse leaves in search_results.
OnFetchFailure(search_results, result) ==
    Append(search_results, SnippetSource(result))

\* NoEvidence with the test of line 223 left out.
NoEvidenceNever(search_results) == FALSE
\* The test of line 223.
NoEvidence(search_results) == search_results = <<>>

\* NeedsDetail asking for the detailed explanation for every label but TRUE.
NeedsDetailUnlessTrue(classification) == classification # "TRUE"
\* The test of line 254.
NeedsDetail(classification) == classification = "FALSE"

\* verify_misinformation's results (lines 224-230, 276-283, 286-292); None is
\* "None" for classification and <<>> for the others.
VmNoResult ==
    [status |-> "none", message |-> "", classification |-> "None",
     explanation |-> <<>>, detailed_explanation |-> <<>>, sources |-> <<>>,
     sources_count |-> <<>>]
VmErrorResult(msg) ==
    [status |-> "error", message |-> msg, classification |-> "None",
     explanation |-> <<>>, detailed_explanation |-> <<>>, sources |-> <<>>,
     sources_count |-> <<>>]
VmSuccessResult(classification, response_text, detailed_explanation, search_results) ==
    [status |-> "success", message |-> "", classification |-> classification,
     explanation |-> <<response_text>>,
     detailed_explanation |-> detailed_explanation,
     sources |-> [k \in 1..Len(search_results) |->
                     [title |-> search_results[k].title,
                      url |-> search_results[k].url]],
     sources_count |-> <<Len(search_results)>>]

\* --------------------------------------------------------------- state
VARIABLES
    \* chunk_text, run as a loop: its arguments, its locals, its return value
    ct_text, ct_size, ct_i, ct_chunks, ct_pc, ct_ret,
    \* whether GEMINI_API_KEY is set in the environment
    api_key,
    \* the file temp_document.pdf of the working directory
    file,
    \* process_legal_document, per request: where it is, what its URL serves,
    \* whether local_pdf_path is bound, pdf_text, chunks, all_responses, the
    \* generate_content calls it has made, its return value
    lg_pc, lg_served, lg_path, lg_text, lg_chunks, lg_responses, lg_calls, lg_result,
    \* verify_misinformation: where it is, what the search returned (results) and
    \* whether each result's page can be fetched (pages), the results the loop
    \* has gone through (k), search_results, the texts generate_content has
    \* answered, the generate_content calls made, classification, the return value
    vm_pc, vm_results, vm_pages, vm_k, vm_search_results, vm_responses, vm_calls,
    vm_classification, vm_result

ct_vars == <<ct_text, ct_size, ct_i, ct_chunks, ct_pc, ct_ret>>
lg_vars == <<file, lg_pc, lg_served, lg_path, lg_text, lg_chunks, lg_responses,
             lg_calls, lg_result>>
vm_vars == <<vm_pc, vm_results, vm_pages, vm_k, vm_search_results, vm_responses,
             vm_calls, vm_classification, vm_result>>
vars == <<ct_vars, api_key, lg_vars, vm_vars>>

\* No call of chunk_text, no request in flight.
CtIdle ==
    /\ ct_text = <<>> /\ ct_size = 1 /\ ct_i = 0
    /\ ct_chunks = <<>> /\ ct_pc = "done" /\ ct_ret = <<>>
VmIdle ==
    /\ vm_pc = "idle"
    /\ vm_results = <<>> /\ vm_pages = <<>> /\ vm_k = 0 /\ vm_search_results = <<>>
    /\ vm_responses = <<>> /\ vm_calls = 0
    /\ vm_classification = "None"
    /\ vm_result = VmNoResult
LgIdle ==
    /\ file = Nothing
    /\ lg_pc = [r \in Requests |-> "idle"]
    /\ lg_served = [r \in Requests |-> Nothing]
    /\ lg_path = [r \in Requests |-> FALSE]
    /\ lg_text = [r \in Requests |-> <<>>]
    /\ lg_chunks = [r \in Requests |-> <<>>]
    /\ lg_responses = [r \in Requests |-> <<>>]
    /\ lg_calls = [r \in Requests |-> 0]
    /\ lg_result = [r \in Requests |-> NoResult]

\* ------------------------------------------------- chunk_text, as a loop
\* A call chunk_text(text, chunk_size) with a non-empty text and chunk_size > 0
\* (lines 54-56).
CtCall ==
    /\ ct_text \in TextsUpTo(Alphabet, MaxTextLen) \ {<<>>}
    /\ ct_size \in 1..MaxChunkSize
    /\ ct_i = 0
    /\ ct_chunks = <<>>
    /\ ct_pc = "loop"
    /\ ct_ret = <<>>

\* One iteration of the while loop (lines 57-64).
CtIterate ==
    /\ ct_pc = "loop"
    /\ ct_i < Len(ct_text)
    /\ LET end == ChunkEnd(ct_text, ct_i, ct_size)
       IN  /\ ct_chunks' = Append(ct_chunks, Piece(ct_text, ct_i, end))
           /\ ct_i' = end
    /\ UNCHANGED <<ct_text, ct_size, ct_pc, ct_ret>>

\* The loop's exit and the return (lines 57, 65).
CtReturn ==
    /\ ct_pc = "loop"
    /\ ~(ct_i < Len(ct_text))
    /\ ct_ret' = DropEmpty(ct_chunks)
    /\ ct_pc' = "done"
    /\ UNCHANGED <<ct_text, ct_size, ct_i, ct_chunks>>

CtInit == CtCall /\ api_key = TRUE /\ LgIdle /\ VmIdle
CtNext ==
    \/ CtIterate /\ UNCHANGED <<api_key, lg_vars, vm_vars>>
    \/ CtReturn /\ UNCHANGED <<api_key, lg_vars, vm_vars>>

SpecChunk == CtInit /\ [][CtNext]_vars
\* The interpreter keeps executing the loop: no iteration waits on anything.
SpecChunkFair == SpecChunk /\ WF_vars(CtNext)

\* ------------------------------------------------ process_legal_document
\* The handler of lines 136-140: the file removed when local_pdf_path is bound
\* and the file exists, then the error result.
LgExcept(r, msg) ==
    /\ file' = IF lg_path'[r] /\ file.ok THEN Nothing ELSE file
    /\ lg_result' = [lg_result EXCEPT ![r] = ErrorResult(msg)]
    /\ lg_pc' = [lg_pc EXCEPT ![r] = "done"]

\* A request arrives with a URL serving one of docs; get_gemini_client (lines
\* 21-25, 74) raises without the key.
LgCall(r, docs) ==
    /\ lg_pc[r] = "idle"
    /\ \E d \in docs : lg_served' = [lg_served EXCEPT ![r] = d]
    /\ IF api_key
       THEN /\ lg_pc' = [lg_pc EXCEPT ![r] = "download"]
            /\ UNCHANGED <<file, lg_path, lg_result>>
       ELSE /\ UNCHANGED lg_path
            /\ LgExcept(r, "GEMINI_API_KEY not found in environment variables")
    /\ UNCHANGED <<lg_text, lg_chunks, lg_responses, lg_calls>>

\* download_pdf (lines 28-40, 76): the GET raises, or the bytes are written to
\* temp_document.pdf and local_pdf_path is bound.
LgDownload(r) ==
    /\ lg_pc[r] = "download"
    /\ IF lg_served[r].ok
       THEN /\ file' = lg_served[r]
            /\ lg_path' = [lg_path EXCEPT ![r] = TRUE]
            /\ lg_pc' = [lg_pc EXCEPT ![r] = "read"]
            /\ UNCHANGED lg_result
       ELSE /\ UNCHANGED lg_path
            /\ LgExcept(r, "Failed to download PDF")
    /\ UNCHANGED <<lg_served, lg_text, lg_chunks, lg_responses, lg_calls>>

\* Lines 78-92: the text of the file at local_pdf_path is extracted (pdfplumber
\* raises when the file is missing or no PDF); a blank text returns the error
\* result of lines 80-85; otherwise the tokens are estimated and the chunks made.
LgRead(r) ==
    /\ lg_pc[r] = "read"
    /\ UNCHANGED <<lg_served, lg_path, lg_responses, lg_calls>>
    /\ IF ~file.ok
       THEN /\ LgExcept(r, "No such file or directory")
            /\ UNCHANGED <<lg_text, lg_chunks>>
       ELSE IF ~file.pdf
       THEN /\ LgExcept(r, "No /Root object! - Is this really a PDF?")
            /\ UNCHANGED <<lg_text, lg_chunks>>
       ELSE LET pdf_text == read_pdf_to_text(file.pages)
            IN  /\ lg_text' = [lg_text EXCEPT ![r] = pdf_text]
                /\ IF IsBlank(pdf_text)
                   THEN /\ lg_result' = [lg_result EXCEPT ![r] =
                                ErrorResult("No text extracted from the PDF.")]
                        /\ lg_pc' = [lg_pc EXCEPT ![r] = "done"]
                        /\ UNCHANGED <<file, lg_chunks>>
                   ELSE /\ lg_chunks' = [lg_chunks EXCEPT ![r] = LegalChunks(pdf_text)]
                        /\ lg_pc' = [lg_pc EXCEPT ![r] = "llm"]
                        /\ UNCHANGED <<file, lg_result>>

\* One iteration of the loop of lines 95-119: generate_content is called for the
\* next chunk and answers, or raises.
LgExplainChunk(r) ==
    /\ lg_pc[r] = "llm"
    /\ Len(lg_responses[r]) < Len(lg_chunks[r])
    /\ lg_calls' = [lg_calls EXCEPT ![r] = @ + 1]
    /\ UNCHANGED <<lg_served, lg_path, lg_text, lg_chunks>>
    /\ \/ /\ lg_responses' = [lg_responses EXCEPT ![r] = Append(@, Len(@) + 1)]
          /\ UNCHANGED <<file, lg_pc, lg_result>>
       \/ /\ UNCHANGED lg_responses
          /\ LgExcept(r, "generate_content failed")

\* Lines 121-134: the file removed if it exists, the success result returned.
LgReturn(r) ==
    /\ lg_pc[r] = "llm"
    /\ Len(lg_responses[r]) = Len(lg_chunks[r])
    /\ file' = IF file.ok THEN Nothing ELSE file
    /\ lg_result' = [lg_result EXCEPT ![r] =
            SuccessResult(lg_responses[r], approx_tokens_from_chars(lg_text[r]),
                          lg_chunks[r])]
    /\ lg_pc' = [lg_pc EXCEPT ![r] = "done"]
    /\ UNCHANGED <<lg_served, lg_path, lg_text, lg_chunks, lg_responses, lg_calls>>

LgInit == CtIdle /\ api_key \in BOOLEAN /\ LgIdle /\ VmIdle
LgRest == UNCHANGED <<ct_vars, api_key, vm_vars>>

\* One request, from an empty working directory.
LegalNext ==
    \/ LgCall("r1", LegalDocs) /\ LgRest
    \/ LgDownload("r1") /\ LgRest
    \/ LgRead("r1") /\ LgRest
    \/ LgExplainChunk("r1") /\ LgRest
    \/ LgReturn("r1") /\ LgRest
SpecLegal == LgInit /\ [][LegalNext]_vars

\* Two requests served at the same time by workers that share the working
\* directory (src/api.py, lines 64-69).
ConcurrentNext ==
    \/ \E r \in Requests : LgCall(r, TwoDocs) /\ LgRest
    \/ \E r \in Requests : LgDownload(r) /\ LgRest
    \/ \E r \in Requests : LgRead(r) /\ LgRest
    \/ \E r \in Requests : LgExplainChunk(r) /\ LgRest
    \/ \E r \in Requests : LgReturn(r) /\ LgRest
SpecConcurrent == LgInit /\ [][ConcurrentNext]_vars

\* -------------------------------------------------- verify_misinformation
\* The handler of lines 285-292.
VmExcept(msg) ==
    /\ vm_result' = VmErrorResult(msg)
    /\ vm_pc' = "done"

\* A request arrives; get_gemini_client (lines 21-25, 219) raises without the key.
VmCall ==
    /\ vm_pc = "idle"
    /\ IF api_key
       THEN vm_pc' = "search" /\ UNCHANGED vm_result
       ELSE VmExcept("GEMINI_API_KEY not found in environment variables")
    /\ UNCHANGED <<vm_results, vm_pages, vm_k, vm_search_results, vm_responses,
                   vm_calls, vm_classification>>

\* search_web_info's search (lines 146-155): it raises, which line 196 catches
\* with search_results still empty, or it answers at most num_results results,
\* each with a page that can be fetched and parsed or cannot.
VmSearch ==
    /\ vm_pc = "search"
    /\ \/ vm_results' = <<>> /\ vm_pages' = <<>>
       \/ \E n \in 0..NumResults :
            /\ vm_results' = [k \in 1..n |-> SearchResult(k)]
            /\ vm_pages' \in [1..n -> BOOLEAN]
    /\ vm_pc' = "fetch"
    /\ UNCHANGED <<vm_k, vm_search_results, vm_responses, vm_calls, vm_classification,
                   vm_result>>

\* One iteration of the loop of lines 157-194.
VmFetch ==
    /\ vm_pc = "fetch"
    /\ vm_k < Len(vm_results)
    /\ LET k == vm_k + 1
           result == vm_results[k]
       IN  vm_search_results' =
               IF vm_pages[k]
               THEN Append(vm_search_results, ScrapedSource(result, CleanText(k)))
               ELSE OnFetchFailure(vm_search_results, result)
    /\ vm_k' = vm_k + 1
    /\ UNCHANGED <<vm_pc, vm_results, vm_pages, vm_responses, vm_calls,
                   vm_classification, vm_result>>

\* search_web_info returns (line 199) an empty list: lines 223-230.
VmNoEvidence ==
    /\ vm_pc = "fetch"
    /\ vm_k >= Len(vm_results)
    /\ NoEvidence(vm_search_results)
    /\ vm_result' = VmErrorResult("No search results found. Cannot verify the information.")
    /\ vm_pc' = "done"
    /\ UNCHANGED <<vm_results, vm_pages, vm_k, vm_search_results, vm_responses,
                   vm_calls, vm_classification>>

\* search_web_info returns evidence: the first generate_content call (lines
\* 232-251) raises or answers; the label is extracted, and unless a detailed
\* explanation is due the success result is returned (lines 253-254, 276-283).
VmClassify ==
    /\ vm_pc = "fetch"
    /\ vm_k >= Len(vm_results)
    /\ ~NoEvidence(vm_search_results)
    /\ vm_calls' = vm_calls + 1
    /\ UNCHANGED <<vm_results, vm_pages, vm_k, vm_search_results>>
    /\ \/ /\ VmExcept("generate_content failed")
          /\ UNCHANGED <<vm_responses, vm_classification>>
       \/ \E response_text \in Responses :
            LET classification == extract_label(response_text)
            IN  /\ vm_responses' = Append(vm_responses, response_text)
                /\ vm_classification' = classification
                /\ IF NeedsDetail(classification)
                   THEN vm_pc' = "detail" /\ UNCHANGED vm_result
                   ELSE /\ vm_pc' = "done"
                        /\ vm_result' = VmSuccessResult(classification, response_text,
                                                        <<>>, vm_search_results)

\* The second generate_content call (lines 255-274) raises or answers, and the
\* success result is returned (lines 276-283).
VmDetail ==
    /\ vm_pc = "detail"
    /\ vm_calls' = vm_calls + 1
    /\ UNCHANGED <<vm_results, vm_pages, vm_k, vm_search_results, vm_classification>>
    /\ \/ /\ VmExcept("generate_content failed")
          /\ UNCHANGED vm_responses
       \/ \E detail_text \in DetailTexts :
            /\ vm_responses' = Append(vm_responses, detail_text)
            /\ vm_pc' = "done"
            /\ vm_result' = VmSuccessResult(vm_classification, vm_responses[1],
                                            <<detail_text>>, vm_search_results)

VmInit == CtIdle /\ api_key \in BOOLEAN /\ LgIdle /\ VmIdle
VmRest == UNCHANGED <<ct_vars, api_key, lg_vars>>
VerifyNext ==
    \/ VmCall /\ VmRest
    \/ VmSearch /\ VmRest
    \/ VmFetch /\ VmRest
    \/ VmNoEvidence /\ VmRest
    \/ VmClassify /\ VmRest
    \/ VmDetail /\ VmRest
SpecVerify == VmInit /\ [][VerifyNext]_vars

\* ------------------------------------------------------ chunker properties
\* The offset of the first non-whitespace character of text at or after pos,
\* or len(text).
FirstInk(text, pos) ==
    LET ink == {j \in pos..(Len(text) - 1) : text[j + 1] \notin Whitespace}
    IN  IF ink = {} THEN Len(text) ELSE CHOOSE j \in ink : \A k \in ink : j <= k

\* chunks, in order, are disjoint contiguous pieces of text from offset pos on,
\* each non-empty and trimmed, and every character of text outside them is
\* whitespace.
RECURSIVE Covers(_, _, _)
Covers(text, pos, chunks) ==
    LET p == FirstInk(text, pos)
    IN  IF chunks = <<>>
        THEN p = Len(text)
        ELSE LET c == Head(chunks)
             IN  /\ c # <<>>
                 /\ Strip(c) = c
                 /\ p + Len(c) <= Len(text)
                 /\ Slice(text, p, p + Len(c)) = c
                 /\ Covers(text, p + Len(c), Tail(chunks))

RECURSIVE Flatten(_)
Flatten(ss) == IF ss = <<>> THEN <<>> ELSE Head(ss) \o Flatten(Tail(ss))

\* C4: at every iteration the non-empty chunks collected so far are disjoint
\* contiguous trimmed pieces of text[0:i] that leave out only whitespace, and
\* the returned chunks are such pieces of the whole text: every non-whitespace
\* character once, in order, only whitespace around the split points missing.
C4_ChunksPartitionText ==
    /\ Covers(Slice(ct_text, 0, ct_i), 0, SelectSeq(ct_chunks, LAMBDA c : c # <<>>))
    /\ (ct_pc = "done" => Covers(ct_text, 0, ct_ret))
C4_Witness ==
    /\ ct_pc = "done"
    /\ Len(ct_ret) >= 2
    /\ Len(Flatten(ct_ret)) < Len(ct_text)
    /\ Len(ct_chunks) > Len(ct_ret)

\* C5 as stated: a text shorter than chunk_size comes back as exactly one chunk,
\* the trimmed text.
C5_ShortTextOneChunk ==
    (ct_pc = "done" /\ Len(ct_text) < ct_size) => ct_ret = <<Strip(ct_text)>>
\* C5 amended: a text shorter than chunk_size that holds a non-whitespace
\* character comes back as exactly one chunk, the trimmed text; a
\* whitespace-only one comes back as no chunk at all.
C5_ShortInkTextOneChunk ==
    (ct_pc = "done" /\ Len(ct_text) < ct_size) =>
        IF IsBlank(ct_text) THEN ct_ret = <<>> ELSE ct_ret = <<Strip(ct_text)>>
C5_Witness ==
    /\ ct_pc = "done"
    /\ Len(ct_text) < ct_size
    /\ ~IsBlank(ct_text)
    /\ ct_ret = <<Strip(ct_text)>>
    /\ Strip(ct_text) # ct_text

\* No space character at the offsets i .. i + chunk_size * 1.2 of text.
NoSpaceNear(text, i, chunk_size) ==
    \A j \in i..(Len(text) - 1) :
        WithinTolerance(j - i, chunk_size) => text[j + 1] # " "

\* C10: every iteration moves the offset forward, by at most chunk_size * 1.2
\* characters, so no chunk is longer than that; with no space within
\* chunk_size * 1.2 characters of the chunk's start, a chunk that is not the
\* last is cut at exactly chunk_size characters; and chunk_text returns.
C10_ChunkBounded ==
    /\ [][CtIterate =>
            LET d == ct_i' - ct_i
            IN  /\ d >= 1
                /\ d * 10 <= ct_size * 12
                /\ ct_i' <= Len(ct_text)
                /\ Len(ct_chunks'[Len(ct_chunks')]) <= d
                /\ (NoSpaceNear(ct_text, ct_i, ct_size) /\ ct_i' < Len(ct_text))
                       => d = ct_size]_ct_vars
    /\ <>(ct_pc = "done")
C10_Witness ==
    /\ ct_pc = "done"
    /\ \A k \in 1..Len(ct_text) : ct_text[k] = "a"
    /\ Len(ct_ret) >= 2
    /\ Len(ct_ret[1]) = ct_size

\* ------------------------------------------------- legal-document properties
\* The request has extracted a text that is not whitespace-only.
HasText(r) == lg_pc[r] \in {"llm", "done"} /\ ~IsBlank(lg_text[r])

\* The distance between the first and the last non-whitespace character.
InkSpread(text) ==
    LET ink == {j \in 0..(Len(text) - 1) : text[j + 1] \notin Whitespace}
    IN  IF ink = {} THEN 0
        ELSE (CHOOSE j \in ink : \A k \in ink : j >= k) - FirstInk(text, 0)

ChunksProcessedIsCalls(r) ==
    lg_result[r].status = "success" =>
        lg_result[r].metadata[1].chunks_processed = lg_calls[r]

\* C1: once process_legal_document has returned from a run that downloaded the
\* PDF to the temporary file, the temporary file does not exist.
C1_TempFileRemoved ==
    (lg_pc["r1"] = "done" /\ lg_path["r1"]) => ~file.ok

\* C6 as stated: an extracted text (not whitespace-only) whose estimated token
\* count exceeds the limit is split into more than one chunk, and a successful
\* result's chunks_processed is the number of generate_content calls made.
C6_OverLimitManyChunks ==
    /\ (HasText("r1") /\ approx_tokens_from_chars(lg_text["r1"]) > TOKEN_LIMIT_LEGAL)
           => Len(lg_chunks["r1"]) > 1
    /\ ChunksProcessedIsCalls("r1")
\* C6 amended: such a text is split into at least one chunk, and into more than
\* one when it holds non-whitespace characters more than chunk_size * 1.2
\* characters apart; a successful result's chunks_processed is the number of
\* generate_content calls made.
C6_OverLimitChunked ==
    /\ (HasText("r1") /\ approx_tokens_from_chars(lg_text["r1"]) > TOKEN_LIMIT_LEGAL)
           => /\ Len(lg_chunks["r1"]) >= 1
              /\ InkSpread(lg_text["r1"]) * 10 > LegalChunkSize * 12
                     => Len(lg_chunks["r1"]) > 1
    /\ ChunksProcessedIsCalls("r1")
C6_Witness ==
    /\ lg_result["r1"].status = "success"
    /\ approx_tokens_from_chars(lg_text["r1"]) > TOKEN_LIMIT_LEGAL
    /\ Len(lg_chunks["r1"]) > 1
    /\ lg_calls["r1"] = Len(lg_chunks["r1"])

\* C8: of two requests with different documents, each one about to extract finds
\* in the file the document it downloaded, and the text each has extracted is
\* the text of the document it downloaded.
C8_OwnDocumentOnly ==
    lg_served["r1"] # lg_served["r2"] =>
        \A r \in Requests :
            /\ lg_pc[r] = "read" => file = lg_served[r]
            /\ lg_pc[r] = "llm" => lg_text[r] = read_pdf_to_text(lg_served[r].pages)

\* ------------------------------------------------------ verify properties
\* C2: a response that contains PARTIALLY TRUE, in any letter case, is
\* classified PARTIALLY TRUE.
C2_PartiallyTrueLabel ==
    (vm_responses # <<>> /\ Contains(Upper(vm_responses[1]), kPARTIALLY_TRUE))
        => vm_classification = "PARTIALLY TRUE"

\* C3: when the evidence collector has returned an empty list, the result is an
\* error result with classification None and no sources, and generate_content
\* was not called.
C3_NoEvidenceNoCall ==
    (vm_pc = "done" /\ vm_search_results = <<>>) =>
        /\ vm_result.status = "error"
        /\ vm_result.classification = "None"
        /\ vm_result.sources = <<>>
        /\ vm_calls = 0
C3_Witness ==
    /\ vm_pc = "done"
    /\ api_key
    /\ vm_search_results = <<>>
    /\ vm_result.message = "No search results found. Cannot verify the information."

\* C7: the sources collected so far are the first search results, in order: a
\* source whose page cannot be fetched holds the snippet alone, one whose page
\* can holds the snippet and then the excerpt; and once the loop is over there
\* are as many sources as results.
C7_SourcePerResult ==
    /\ Len(vm_search_results) = vm_k
    /\ vm_k <= Len(vm_results)
    /\ \A k \in 1..Len(vm_search_results) :
        /\ vm_search_results[k].title = vm_results[k].title
        /\ vm_search_results[k].url = vm_results[k].href
        /\ vm_search_results[k].content.snippet = vm_results[k].body
        /\ vm_search_results[k].content.full =
               IF vm_pages[k] THEN <<CleanText(k)>> ELSE <<>>
    /\ (vm_pc \in {"detail", "done"} => Len(vm_search_results) = Len(vm_results))
C7_Witness ==
    /\ vm_pc = "done"
    /\ Len(vm_results) = 3
    /\ vm_pages = <<TRUE, FALSE, TRUE>>
    /\ Len(vm_search_results) = 3
    /\ vm_search_results[2].content.full = <<>>
    /\ vm_search_results[3].content.full # <<>>

\* C9: a successful run has made two generate_content calls and returns the
\* second answer as detailed_explanation when the label is FALSE, and has made
\* one call and returns no detailed_explanation for every other label.
C9_DetailOnlyWhenFalse ==
    vm_result.status = "success" =>
        IF vm_result.classification = "FALSE"
        THEN /\ vm_calls = 2
             /\ Len(vm_responses) = 2
             /\ vm_result.detailed_explanation = <<vm_responses[2]>>
        ELSE /\ vm_calls = 1
             /\ Len(vm_responses) = 1
             /\ vm_result.detailed_explanation = <<>>
C9_Witness ==
    /\ vm_result.status = "success"
    /\ vm_result.classification = "FALSE"
    /\ vm_calls = 2

=============================================================================
